---------------------------- MODULE Spec2Model ----------------------------
(***************************************************************************)
(* Model of time_accessibility_map.py: the Connection / Connections        *)
(* classes that scrape IDOS result documents for every destination city    *)
(* and turn the collection into a GeoJSON feature collection.              *)
(*                                                                         *)
(* Three specifications share one state:                                   *)
(*   Spec          the run that builds the collection, Connections(...)    *)
(*                 followed by get_geojson (main, lines 400-427)           *)
(*   SpecRestored  the run that restores a saved collection               *)
(*                 (--local_connections) and calls get_geojson             *)
(*   SpecRetry     load_idos called repeatedly on one Connection object    *)
(***************************************************************************)
EXTENDS Integers, Sequences, FiniteSets, TLC

VARIABLES
    cities,       \* the registry, a sequence of City
    origin,       \* the origin City
    limit,        \* args.limit
    ratio,        \* the ratio_absolute flag get_geojson was called with
    pc,           \* "loading", "loaded", "done" or "crashed"
    i,            \* the position of the loop of Connections.__init__
    connections,  \* Connections.connections
    log,          \* per destination visited: what load_idos got and gave
    geojson,      \* the features get_geojson returned
    error,        \* the exception that ended the run, or None
    conn,         \* SpecRetry: the Connection load_idos is called on
    document,     \* SpecRetry: the boxes of the result document
    calls,        \* SpecRetry: the number of calls made
    first,        \* SpecRetry: the Connection after the first call
    returned      \* SpecRetry: what the last call returned

vars == <<cities, origin, limit, ratio, pc, i, connections, log, geojson,
          error, conn, document, calls, first, returned>>

(***************************************************************************)
(* Bounds of the model                                                     *)
(***************************************************************************)
MaxCities == 3
MaxBoxes == 2
MaxPop == 3
MaxConn == 3
MaxCalls == 2

(***************************************************************************)
(* Values                                                                  *)
(***************************************************************************)
\* Python's None where a string is expected (no exception, no result)
None == "None"

Min(a, b) == IF a < b THEN a ELSE b

RECURSIVE GCD(_, _)
GCD(a, b) == IF b = 0 THEN a ELSE GCD(b, a % b)

Abs(x) == IF x < 0 THEN -x ELSE x

\* Numbers that are not integers (mean(), /) are exact fractions <<n, d>>
\* in lowest terms, d > 0; <<1, 0>> is float('inf').
Frac(n, d) ==
    LET s == IF d < 0 THEN -1 ELSE 1
        g == GCD(Abs(n), Abs(d))
    IN  <<(s * n) \div g, (s * d) \div g>>

Inf == <<1, 0>>
Zero == <<0, 1>>

FracLess(a, b) == a[1] * b[2] < b[1] * a[2]
FracSub(a, b) == Frac(a[1] * b[2] - b[1] * a[2], a[2] * b[2])
\* a / b for b # 0
FracDiv(a, b) == Frac(a[1] * b[2], a[2] * b[1])

RECURSIVE SumSeq(_)
SumSeq(s) == IF s = <<>> THEN 0 ELSE Head(s) + SumSeq(Tail(s))

\* statistics.mean of a non-empty list of integers
Mean(s) == Frac(SumSeq(s), Len(s))

(***************************************************************************)
(* Result documents                                                        *)
(***************************************************************************)
\* A text is modelled by what the three regular expressions of load_idos
\* find in it, '([0-9]+) hod', '([0-9]+) min' and '([0-9]+) km': for each,
\* <<>> when re.search finds nothing, <<n>> when group(1) is n.
Text(h, m, k) == [hod |-> h, min |-> m, km |-> k]

\* "1 hod 30 min", "45 min"
TimeTexts == {Text(<<1>>, <<30>>, <<>>), Text(<<>>, <<45>>, <<>>)}
\* "100 km", "-"
DistTexts == {Text(<<>>, <<>>, <<100>>), Text(<<>>, <<>>, <<>>)}

\* A matched element with id connectionBox-N.  nested: the chain
\* div.div.label.p exists; strongs: the texts of the <strong> elements
\* under that p.
Tag(nested, strongs) == [nested |-> nested, strongs |-> strongs]

Boxes ==
    {Tag(FALSE, <<>>)}
    \cup {Tag(TRUE, <<t>>) : t \in TimeTexts}
    \cup {Tag(TRUE, <<t, d>>) : t \in TimeTexts, d \in DistTexts}

SeqsUpTo(S, n) == UNION {[1..k -> S] : k \in 0..n}

\* soup.find_all(id=connection_box_regex) of the documents IDOS may return
Documents == SeqsUpTo(Boxes, MaxBoxes)

\* str(con): the serialised markup of a tag
Str(tag) == [html |-> tag]

\* What urlopen gives: an exception, or a response with a status code
Fetches ==
    {[raised |-> TRUE, code |-> 0]}
    \cup {[raised |-> FALSE, code |-> c] : c \in {200, 404}}

(***************************************************************************)
(* City                                                                    *)
(***************************************************************************)
\* hasattr: whether the coordinates attribute was ever assigned
\* (City.__init__ only annotates it).
City(name, population, hasattr, coordinates) ==
    [name |-> name, population |-> population,
     hasattr |-> hasattr, coordinates |-> coordinates]

\* City.__eq__
CityEq(a, b) == a.name = b.name

Pairs == {<<0, 0>>, <<1, 0>>, <<2, 0>>}

\* The coordinates a city can hold: never assigned, a list that is not a
\* pair, or a [longitude, latitude] pair.
CoordinateStates ==
    {[hasattr |-> FALSE, coordinates |-> <<>>]}
    \cup {[hasattr |-> TRUE, coordinates |-> c] : c \in {<<>>, <<0, 0, 0>>} \cup Pairs}

\* The great-circle distance of lines 177-193, on a grid instead of a
\* sphere: 0 for equal points, symmetric, from the first two coordinates.
Haversine(lon1, lat1, lon2, lat2) == Abs(lon2 - lon1) + Abs(lat2 - lat1)

(***************************************************************************)
(* Connection                                                              *)
(***************************************************************************)
\* Connection.__init__ ; ratio_absolute is only annotated: <<>> until set
NewConnection(from_city, to_city) ==
    [from_city |-> from_city, to_city |-> to_city,
     connections |-> <<>>, connections_times |-> <<>>,
     connections_distances |-> <<>>, distance |-> 0,
     ratio_absolute |-> <<>>]

\* The guard of line 174
PreconditionFails(f, t) == Len(t) # 2 /\ Len(f) # 2

\* Connection.set_distance with the default cities: the exception it
\* raises (None when it returns) and the connection afterwards.
SetDistance(c) ==
    LET f == c.from_city.coordinates
        t == c.to_city.coordinates
    IN  IF ~c.to_city.hasattr \/ ~c.from_city.hasattr
        THEN [raised |-> "AttributeError", conn |-> c]
        ELSE IF PreconditionFails(f, t)
        THEN [raised |-> "IndexError: City coordinates are not set", conn |-> c]
        ELSE IF Len(f) < 2 \/ Len(t) < 2
        THEN [raised |-> "IndexError: list index out of range", conn |-> c]
        ELSE [raised |-> None,
              conn |-> [c EXCEPT !.distance = Haversine(f[1], f[2], t[1], t[2])]]

\* Lines 132-140: the duration of a time text in seconds
TotalSeconds(time) ==
    (IF time.hod # <<>> THEN time.hod[1] * 60 * 60 ELSE 0)
    + (IF time.min # <<>> THEN time.min[1] * 60 ELSE 0)

\* Lines 126-142 on one box: the exception raised (None when the box is
\* parsed) and the connection afterwards.
ParseBox(c, tag) ==
    IF ~tag.nested \/ Len(tag.strongs) = 0
    THEN [raised |-> "AttributeError", conn |-> c]
    ELSE IF Len(tag.strongs) < 2
    THEN [raised |-> "IndexError", conn |-> c]
    ELSE IF tag.strongs[2].km = <<>>
    THEN [raised |-> "AttributeError", conn |-> c]
    ELSE [raised |-> None,
          conn |-> [c EXCEPT
              !.connections_distances = Append(@, tag.strongs[2].km[1]),
              !.connections_times = Append(@, TotalSeconds(tag.strongs[1]))]]

\* The loop of lines 119-147: an IndexError is caught and the box skipped,
\* any other exception leaves the loop.
RECURSIVE ParseBoxes(_, _)
ParseBoxes(c, boxes) ==
    IF boxes = <<>>
    THEN [raised |-> None, conn |-> c]
    ELSE LET p == ParseBox(c, Head(boxes))
         IN  IF p.raised = None \/ p.raised = "IndexError"
             THEN ParseBoxes(p.conn, Tail(boxes))
             ELSE p

\* Mutant of Snapshots: only the boxes that were parsed are serialised
SnapshotsOfParsed(tags) ==
    LET Parsed(tag) == tag.nested /\ Len(tag.strongs) >= 2 /\ tag.strongs[2].km # <<>>
        kept == SelectSeq(tags, Parsed)
    IN  [k \in 1..Len(kept) |-> Str(kept[k])]

\* Line 151
Snapshots(tags) == [k \in 1..Len(tags) |-> Str(tags[k])]

\* Lines 154-156: the data integrity check
IntegrityFails(c) ==
    \/ Len(c.connections) = 0
    \/ Len(c.connections_times) = 0
    \/ Len(c.connections_distances) = 0

\* Line 98
StatusOk(code) == 200 <= code /\ code < 400

Return(ret, raised, c) == [ret |-> ret, raised |-> raised, conn |-> c]

\* Connection.load_idos on connection c, when urlopen gives fetch and the
\* document holds the boxes doc.  ret is "self" or "None" when it returns
\* and "raise" when an exception leaves it.
LoadIdos(c, fetch, doc) ==
    IF CityEq(c.from_city, c.to_city)
    THEN Return("None", None, c)
    ELSE LET sd == SetDistance(c) IN
    IF sd.raised # None
    THEN Return("raise", sd.raised, sd.conn)
    ELSE IF fetch.raised
    THEN Return("raise", "URLError", sd.conn)
    ELSE IF ~StatusOk(fetch.code)
    THEN Return("raise", "IOError", sd.conn)
    ELSE LET found == [sd.conn EXCEPT !.connections = doc] IN
    IF Len(doc) = 0
    THEN Return("None", None, found)
    ELSE LET p == ParseBoxes(found, doc) IN
    IF p.raised # None
    THEN Return("raise", p.raised, p.conn)
    ELSE LET done == [p.conn EXCEPT !.connections = Snapshots(@)] IN
    IF IntegrityFails(done)
    THEN Return("None", None, done)
    ELSE Return("self", None, done)

(***************************************************************************)
(* Connections.get_geojson                                                 *)
(***************************************************************************)
\* self.connections[0:limit], limit >= 0
Window(conns, lim) == SubSeq(conns, 1, Min(lim, Len(conns)))

\* Lines 304-307.  mean() of an empty list and a division by a zero
\* distance raise.
ScoreRaises(c, r) ==
    IF Len(c.connections_times) = 0 THEN "StatisticsError"
    ELSE IF r /\ c.distance = 0 THEN "ZeroDivisionError"
    ELSE None

Score(c, r) ==
    IF r
    THEN FracDiv(Mean(c.connections_times), <<c.distance, 1>>)
    ELSE Mean(c.connections_times)

\* Mutant of NextMax: the comparison the wrong way round
NextMaxFlipped(score, max) == IF FracLess(score, max) THEN score ELSE max

\* Lines 310-313
NextMax(score, max) == IF FracLess(max, score) THEN score ELSE max
NextMin(score, min) == IF FracLess(score, min) THEN score ELSE min

\* The first loop, lines 292-313, from entry k of the window on: the
\* collection with ratio_absolute set, max and min, and the exception that
\* ended it (None when it ran to the end).
RECURSIVE FirstPass(_, _, _, _, _, _)
FirstPass(conns, lim, r, k, max, min) ==
    IF k > Min(lim, Len(conns))
    THEN [raised |-> None, conns |-> conns, max |-> max, min |-> min]
    ELSE IF ScoreRaises(conns[k], r) # None
    THEN [raised |-> ScoreRaises(conns[k], r), conns |-> conns,
          max |-> max, min |-> min]
    ELSE LET score == Score(conns[k], r)
         IN  FirstPass([conns EXCEPT ![k].ratio_absolute = score], lim, r,
                       k + 1, NextMax(score, max), NextMin(score, min))

\* Mutant of Clamp: the ranks are taken over the whole collection
ClampToAll(lim, n) == n

\* Lines 323-324
Clamp(lim, n) == IF lim > n THEN n ELSE lim

\* The 0-indexed ranks of lines 330 and 333
MediumRank(lim) == ((lim - 1) * 2) \div 3
LargeRank(lim) == (lim - 1) \div 3

\* Mutant of IconSize: the comparison with the large threshold the wrong
\* way round
IconSizeFlipped(population, conns, lim) ==
    LET medium == SubSeq(conns, 1, lim)[((lim - 1) * 2) \div 3 + 1].to_city.population
        large == SubSeq(conns, 1, lim)[(lim - 1) \div 3 + 1].to_city.population
    IN  IF population < large THEN "large"
        ELSE IF population > medium THEN "medium"
        ELSE "small"

\* Lines 328-334, with the limit already clamped
IconSize(population, conns, lim) ==
    LET medium == Window(conns, lim)[MediumRank(lim) + 1].to_city.population
        large == Window(conns, lim)[LargeRank(lim) + 1].to_city.population
    IN  IF population > large THEN "large"
        ELSE IF population > medium THEN "medium"
        ELSE "small"

\* Line 337, for max # min
ColorIndex(score, max, min) == FracDiv(FracSub(score, min), FracSub(max, min))

\* Line 341: the hue 0.3333 - 0.3333 * color_index of the marker colour,
\* in ten-thousandths
Hue(color_index) ==
    Frac(3333 * (color_index[2] - color_index[1]), color_index[2])

\* Lines 344-364
Feature(c, icon_size, hue) ==
    [marker_size |-> icon_size, marker_color |-> hue,
     name |-> c.to_city.name,
     connections_times |-> c.connections_times,
     connections_distances |-> c.connections_distances,
     mean_time |-> Mean(c.connections_times),
     distance |-> c.distance,
     connections_details |-> c.connections,
     coordinates |-> c.to_city.coordinates]

\* The second loop, lines 319-364, over the entries of the slice taken with
\* the limit as given; the limit is clamped in the first iteration.
RECURSIVE SecondPass(_, _, _, _, _, _)
SecondPass(conns, lim, k, max, min, features) ==
    IF k > Min(lim, Len(conns))
    THEN [raised |-> None, features |-> features]
    ELSE IF FracSub(max, min)[1] = 0
    THEN [raised |-> "ZeroDivisionError", features |-> features]
    ELSE LET c == conns[k]
             icon_size == IconSize(c.to_city.population, conns,
                                   Clamp(lim, Len(conns)))
             hue == Hue(ColorIndex(c.ratio_absolute, max, min))
         IN  SecondPass(conns, lim, k + 1, max, min,
                        Append(features, Feature(c, icon_size, hue)))

\* Connections.get_geojson(limit, ratio_absolute)
GetGeojsonOf(conns, lim, r) ==
    LET p1 == FirstPass(conns, lim, r, 1, Zero, Inf)
    IN  IF p1.raised # None
        THEN [raised |-> p1.raised, conns |-> p1.conns, features |-> <<>>,
              max |-> p1.max, min |-> p1.min]
        ELSE LET p2 == SecondPass(p1.conns, lim, 1, p1.max, p1.min, <<>>)
             IN  [raised |-> p2.raised, conns |-> p1.conns,
                  features |-> IF p2.raised = None THEN p2.features ELSE <<>>,
                  max |-> p1.max, min |-> p1.min]

(***************************************************************************)
(* The run that builds the collection                                      *)
(***************************************************************************)
NoFetch == [raised |-> FALSE, code |-> 0]

\* Whether load_idos gets as far as urlopen, and as far as the document
Requests(c) ==
    ~CityEq(c.from_city, c.to_city) /\ SetDistance(c).raised = None

Responses(c) ==
    IF ~Requests(c) THEN {<<NoFetch, <<>>>>}
    ELSE {<<f, <<>>>> : f \in {f \in Fetches : f.raised \/ ~StatusOk(f.code)}}
         \cup {<<f, d>> : f \in {f \in Fetches : ~f.raised /\ StatusOk(f.code)},
                          d \in Documents}

\* Mutant of Filter: every result is appended
FilterNothing(ret) == TRUE

\* Line 282
Filter(ret) == ret # "None"

\* The registry: the cities in the order of the article, by descending
\* population, each with the coordinates set_all_coordinates left it.
Registries ==
    {c \in SeqsUpTo(CoordinateStates, MaxCities) : Len(c) >= 1}

NoConnection == NewConnection(City(0, 1, FALSE, <<>>), City(0, 1, FALSE, <<>>))

Init ==
    /\ \E reg \in Registries :
          cities = [k \in 1..Len(reg) |->
                       City(k, Len(reg) + 1 - k, reg[k].hasattr,
                            reg[k].coordinates)]
    /\ origin \in {cities[k] : k \in 1..Len(cities)}
    /\ limit \in 0..MaxCities
    /\ ratio = FALSE
    /\ pc = IF Min(limit, Len(cities)) = 0 THEN "loaded" ELSE "loading"
    /\ i = 1
    /\ connections = <<>>
    /\ log = <<>>
    /\ geojson = <<>>
    /\ error = None
    /\ conn = NoConnection
    /\ document = <<>>
    /\ calls = 0
    /\ first = NoConnection
    /\ returned = None

\* One iteration of the loop of Connections.__init__, lines 277-286
LoadConnection ==
    /\ pc = "loading"
    /\ LET c == NewConnection(origin, cities[i]) IN
       \E resp \in Responses(c) : \E r \in {LoadIdos(c, resp[1], resp[2])} :
          /\ log' = Append(log, [to_city |-> cities[i], requested |-> Requests(c),
                                 fetch |-> resp[1], doc |-> resp[2],
                                 ret |-> r.ret, raised |-> r.raised,
                                 conn |-> r.conn])
          /\ IF r.ret = "raise"
             THEN /\ pc' = "crashed"
                  /\ error' = r.raised
                  /\ UNCHANGED <<i, connections>>
             ELSE /\ connections' = IF Filter(r.ret)
                                    THEN Append(connections, r.conn)
                                    ELSE connections
                  /\ i' = i + 1
                  /\ pc' = IF i + 1 > Min(limit, Len(cities))
                           THEN "loaded" ELSE "loading"
                  /\ UNCHANGED error
    /\ UNCHANGED <<cities, origin, limit, ratio, geojson, conn, document,
                   calls, first, returned>>

\* connections.get_geojson(args.limit, args.ratio), line 427; ratio holds
\* the flag it was called with.
GetGeojson ==
    /\ pc = "loaded"
    /\ \E r \in BOOLEAN : \E g \in {GetGeojsonOf(connections, limit, r)} :
       /\ ratio' = r
       /\ connections' = g.conns
       /\ geojson' = g.features
       /\ error' = g.raised
       /\ pc' = IF g.raised = None THEN "done" ELSE "crashed"
    /\ UNCHANGED <<cities, origin, limit, i, log, conn, document, calls,
                   first, returned>>

Next == LoadConnection \/ GetGeojson

Spec == Init /\ [][Next]_vars

(***************************************************************************)
(* The run that restores a saved collection (lines 416, 421)               *)
(***************************************************************************)
Ok200 == [raised |-> FALSE, code |-> 200]

\* The origin of a saved collection
Praha == City(0, MaxPop, TRUE, <<0, 0>>)

\* The documents of a saved collection: every box well formed
WellFormed(doc) ==
    /\ Len(doc) >= 1
    /\ \A k \in 1..Len(doc) : ParseBox(NoConnection, doc[k]).raised = None

\* The connections a saved collection can hold: what load_idos returned
\* for some destination away from the origin and some document.
Saved ==
    {LoadIdos(NewConnection(Praha, City(1, p, TRUE, c)), Ok200, d).conn :
        p \in 1..MaxPop, c \in Pairs \ {Praha.coordinates},
        d \in {d \in Documents : WellFormed(d)}}

InitRestored ==
    /\ cities = <<>>
    /\ origin = Praha
    /\ limit \in 0..(MaxConn + 1)
    /\ ratio = FALSE
    /\ pc = "loaded"
    /\ i = 1
    /\ \E saved \in SeqsUpTo(Saved, MaxConn) :
          connections = [k \in 1..Len(saved) |->
                            [saved[k] EXCEPT !.to_city.name = k]]
    /\ log = <<>>
    /\ geojson = <<>>
    /\ error = None
    /\ conn = NoConnection
    /\ document = <<>>
    /\ calls = 0
    /\ first = NoConnection
    /\ returned = None

NextRestored == GetGeojson

SpecRestored == InitRestored /\ [][NextRestored]_vars

(***************************************************************************)
(* load_idos called again on the same Connection                           *)
(***************************************************************************)
InitRetry ==
    /\ cities = <<>>
    /\ origin = Praha
    /\ limit = 0
    /\ ratio = FALSE
    /\ pc = "loading"
    /\ i = 1
    /\ connections = <<>>
    /\ log = <<>>
    /\ geojson = <<>>
    /\ error = None
    /\ \E c \in Pairs : conn = NewConnection(Praha, City(1, 1, TRUE, c))
    /\ document \in Documents
    /\ calls = 0
    /\ first = NoConnection
    /\ returned = None

\* connection.load_idos(), the fetch giving the same document every time
CallLoadIdos ==
    /\ calls < MaxCalls
    /\ \E r \in {LoadIdos(conn, Ok200, document)} :
       /\ conn' = r.conn
       /\ returned' = r.ret
       /\ error' = r.raised
       /\ first' = IF calls = 0 THEN r.conn ELSE first
    /\ calls' = calls + 1
    /\ UNCHANGED <<cities, origin, limit, ratio, pc, i, connections, log,
                   geojson, document>>

NextRetry == CallLoadIdos

SpecRetry == InitRetry /\ [][NextRetry]_vars

(***************************************************************************)
(* Properties                                                              *)
(***************************************************************************)
\* A box with the nesting, both <strong> elements and a distance text of
\* the form '<integer> km'
WellFormedBox(tag) ==
    tag.nested /\ Len(tag.strongs) >= 2 /\ tag.strongs[2].km # <<>>

\* A box the loop of load_idos skips: its parsing raises the IndexError
\* that line 144 catches
SkippedBox(tag) == tag.nested /\ Len(tag.strongs) = 1

Accepted(doc) == SelectSeq(doc, WellFormedBox)

ExpectedTimes(doc) ==
    [k \in 1..Len(Accepted(doc)) |-> TotalSeconds(Accepted(doc)[k].strongs[1])]

ExpectedDistances(doc) ==
    [k \in 1..Len(Accepted(doc)) |-> Accepted(doc)[k].strongs[2].km[1]]

\* The destination's document was fetched and read
Fetched(e) == e.requested /\ ~e.fetch.raised /\ StatusOk(e.fetch.code)

FetchFailed(e) == e.requested /\ (e.fetch.raised \/ ~StatusOk(e.fetch.code))

Appended(e) == \E k \in 1..Len(connections) : connections[k].to_city = e.to_city

InFeatures(e) == \E k \in 1..Len(geojson) : geojson[k].name = e.to_city.name

\* C1: a document with K matched boxes of which M < K are malformed yields
\* exactly the K - M trip records of the well-formed boxes, in document
\* order, in connections_times and connections_distances.
C1_MalformedBoxesSkipped ==
    \A k \in 1..Len(log) :
        LET e == log[k] IN
        (Fetched(e) /\ Len(Accepted(e.doc)) >= 1) =>
            /\ e.ret = "self"
            /\ e.conn.connections_times = ExpectedTimes(e.doc)
            /\ e.conn.connections_distances = ExpectedDistances(e.doc)

\* C2: a fetch that fails, or answers with a status outside 200..399,
\* aborts only its destination: load_idos' failure is caught, the
\* destination is not appended and the loop goes on.
C2_FailedFetchSkipsDestination ==
    \A k \in 1..Len(log) :
        FetchFailed(log[k]) =>
            /\ log[k].ret # "raise"
            /\ ~Appended(log[k])
            /\ pc # "crashed"

\* The three causes of C3
SameCity(e) == CityEq(origin, e.to_city)
NoBox(e) == Fetched(e) /\ Len(e.doc) = 0
AllSkipped(e) ==
    Fetched(e) /\ Len(e.doc) >= 1 /\ \A j \in 1..Len(e.doc) : SkippedBox(e.doc[j])
Unusable(e) == SameCity(e) \/ NoBox(e) \/ AllSkipped(e)

Absent(city) == ~city.hasattr \/ Len(city.coordinates) # 2

\* C7: when either city's coordinates are absent set_distance raises its
\* precondition error, no distance is computed, and only that destination
\* is lost: the run does not end.
C7_AbsentCoordinatePrecondition ==
    \A k \in 1..Len(log) :
        LET e == log[k] IN
        (~SameCity(e) /\ (Absent(origin) \/ Absent(e.to_city))) =>
            /\ e.raised = "IndexError: City coordinates are not set"
            /\ ~e.requested
            /\ pc # "crashed"

\* The snapshots of the accepted boxes, which C10 expects
AcceptedSnapshots(doc) == [k \in 1..Len(Accepted(doc)) |-> Str(Accepted(doc)[k])]

\* C10 as stated: after load_idos returned self, the snapshots are those of
\* exactly the accepted boxes, as many as there are trip records.
C10_SnapshotsOfAcceptedBoxes ==
    \A k \in 1..Len(log) :
        log[k].ret = "self" =>
            /\ log[k].conn.connections = AcceptedSnapshots(log[k].doc)
            /\ Len(log[k].conn.connections) = Len(log[k].conn.connections_times)

\* C10 amended: after load_idos returned self, the snapshots are those of
\* every matched box, skipped ones included, in document order: there are
\* at least as many as trip records; get_geojson emits them unchanged as
\* connections_details.
C10_SnapshotsOfAllBoxes ==
    /\ \A k \in 1..Len(log) :
          log[k].ret = "self" =>
              /\ Len(log[k].conn.connections) = Len(log[k].doc)
              /\ \A j \in 1..Len(log[k].doc) :
                    log[k].conn.connections[j] = Str(log[k].doc[j])
              /\ Len(log[k].conn.connections) >= Len(log[k].conn.connections_times)
              /\ Len(log[k].conn.connections_times) = Len(Accepted(log[k].doc))
    /\ \A k \in 1..Len(geojson) :
          \E j \in 1..Len(log) :
              /\ log[j].ret = "self"
              /\ log[j].to_city.name = geojson[k].name
              /\ geojson[k].connections_details = log[j].conn.connections

\* C10's case: a usable result whose document held a skipped box, emitted
\* as a feature
C10_Witness ==
    /\ pc = "done"
    /\ \E k \in 1..Len(geojson) :
          Len(geojson[k].connections_details) > Len(geojson[k].connections_times)

(***************************************************************************)
(* Properties of get_geojson                                               *)
(***************************************************************************)
\* The window get_geojson was called on, and the scores of its entries
W == Min(limit, Len(connections))
ScoreAt(k) == Score(connections[k], ratio)
Called == pc \in {"done", "crashed"}

FracLeq(a, b) == ~FracLess(b, a)
MinScore == CHOOSE s \in {ScoreAt(k) : k \in 1..W} : \A k \in 1..W : FracLeq(s, ScoreAt(k))
MaxScore == CHOOSE s \in {ScoreAt(k) : k \in 1..W} : \A k \in 1..W : FracLeq(ScoreAt(k), s)

Green == <<3333, 1>>
Red == <<0, 1>>

\* C4: on a window whose scores are all equal get_geojson raises no
\* division error; every entry gets t = 0, the hue 0.3333, and a feature.
C4_EqualScoresNoDivisionError ==
    (Called /\ W >= 1 /\ MinScore = MaxScore) =>
        /\ error # "ZeroDivisionError"
        /\ Len(geojson) = W
        /\ \A k \in 1..W : geojson[k].marker_color = Green

\* 0.3333 - 0.3333 * (score - min) / (max - min), in ten-thousandths
ExpectedHue(score, min, max) ==
    LET num == FracSub(score, min)
        den == FracSub(max, min)
    IN  Frac(3333 * (den[1] * num[2] - num[1] * den[2]), den[1] * num[2])

\* C5: every feature is encoded with the minimum and the maximum score of
\* exactly the first L entries, its t lies in [0,1] (its hue in
\* [0, 0.3333]), the entry with the minimum score gets hue 0.3333 and the
\* entry with the maximum score gets hue 0.
C5_NormalizationOverWindow ==
    pc = "done" =>
        /\ Len(geojson) = W
        /\ W >= 1 =>
              \A min \in {MinScore} : \A max \in {MaxScore} : \A k \in 1..W :
              \A hue \in {geojson[k].marker_color} :
              /\ (min # max => hue = ExpectedHue(ScoreAt(k), min, max))
              /\ FracLeq(Red, hue) /\ FracLeq(hue, Green)
              /\ (ScoreAt(k) = min => hue = Green)
              /\ (ScoreAt(k) = max => hue = Red)

\* C5's case: features encoded in ratio mode while an entry beyond the
\* window has a score above the window's maximum
C5_Witness ==
    /\ pc = "done"
    /\ ratio
    /\ W >= 2
    /\ W < Len(connections)
    /\ FracLess(MaxScore, Score(connections[W + 1], ratio))

Tier(size) == CASE size = "small" -> 1 [] size = "medium" -> 2 [] size = "large" -> 3

PopulationAt(k) == connections[k].to_city.population

\* C6: of two features of the same window, the one whose destination has
\* the higher population never has the smaller size tier.
C6_TierMonotonic ==
    pc = "done" =>
        \A x, y \in 1..Len(geojson) :
            PopulationAt(x) > PopulationAt(y) =>
                Tier(geojson[x].marker_size) >= Tier(geojson[y].marker_size)

\* C6's case: a window holding all three tiers
C6_Witness ==
    /\ pc = "done"
    /\ \E x, y, z \in 1..Len(geojson) :
          /\ geojson[x].marker_size = "large"
          /\ geojson[y].marker_size = "medium"
          /\ geojson[z].marker_size = "small"

\* C9: with W = min(limit, number of entries), every feature is large iff
\* its population exceeds that of the entry at rank (W-1) div 3, else medium
\* iff it exceeds that of the entry at rank 2(W-1) div 3, else small; for
\* W = 9 the ranks are 2 and 5.
C9_TierThresholds ==
    /\ LargeRank(9) = 2 /\ MediumRank(9) = 5
    /\ pc = "done" =>
          /\ Len(geojson) = W
          /\ \A k \in 1..W :
                LET large == PopulationAt((W - 1) \div 3 + 1)
                    medium == PopulationAt((2 * (W - 1)) \div 3 + 1)
                    size == geojson[k].marker_size
                IN  /\ size = "large" <=> PopulationAt(k) > large
                    /\ size = "medium" <=>
                          (PopulationAt(k) <= large /\ PopulationAt(k) > medium)
                    /\ size = "small" <=>
                          (PopulationAt(k) <= large /\ PopulationAt(k) <= medium)

\* C9's case: a limit above the number of entries, and both thresholds
\* deciding
C9_Witness ==
    /\ pc = "done"
    /\ limit > Len(connections)
    /\ \E x, y \in 1..Len(geojson) :
          /\ geojson[x].marker_size = "large"
          /\ geojson[y].marker_size = "medium"

(***************************************************************************)
(* Properties of a repeated load_idos                                      *)
(***************************************************************************)
\* C8: a second load_idos on the same Connection with the same document
\* leaves the trip records and the snapshots as the first left them, and a
\* call that does not return the connection leaves no trip record behind.
C8_LoadIdosIdempotent ==
    /\ calls >= 2 =>
          /\ conn.connections_times = first.connections_times
          /\ conn.connections_distances = first.connections_distances
          /\ conn.connections = first.connections
    /\ (calls >= 1 /\ returned # "self") =>
          /\ conn.connections_times = <<>>
          /\ conn.connections_distances = <<>>

=============================================================================
